---- MODULE Spec2Model ----
(***************************************************************************)
(* A model of pipeek (src/pipeek/src.py): the streaming scan engine        *)
(* (scan_stream, iter_needles_idx), the point reader (peek_at), the        *)
(* integrity verifier (check_sum), the tree walker (walk) and the command  *)
(* functions peek_needle and peek_at that run them over a haystack.        *)
(* Byte strings are sequences over a two-letter alphabet; a stream is a    *)
(* byte string together with a file position; a path is the sequence of    *)
(* its parts.                                                              *)
(***************************************************************************)
EXTENDS Integers, Sequences, FiniteSets, TLC

\* ---------------------------------------------------------------- bounds
MaxStream == 5      \* longest stream
MaxPattern == 3     \* longest pattern
MaxAround == 2      \* largest context width
MaxBuffer == 4      \* largest chunk size
MaxIndex == 4       \* largest offset handed to peek_at
MaxLength == 2      \* largest length handed to peek_at

Byte == {"a", "X"}

RECURSIVE BytesOfLen(_)
BytesOfLen(n) ==
    IF n = 0 THEN {<<>>}
    ELSE {Append(s, b) : s \in BytesOfLen(n - 1), b \in Byte}

BytesUpTo(n) == UNION {BytesOfLen(k) : k \in 0..n}

\* ------------------------------------------------- Python bytes semantics
Min2(a, b) == IF a < b THEN a ELSE b
Max2(a, b) == IF a > b THEN a ELSE b

SetMin(S) == CHOOSE x \in S : \A y \in S : x <= y

\* a slice bound as Python normalises it: negative counts from the end,
\* then clamped to 0..len
SliceBound(i, n) == IF i < 0 THEN Max2(0, n + i) ELSE Min2(i, n)

\* s[lo:hi]
PySlice(s, lo, hi) ==
    SubSeq(s, SliceBound(lo, Len(s)) + 1, SliceBound(hi, Len(s)))

\* s[lo:]
PySliceFrom(s, lo) == SubSeq(s, SliceBound(lo, Len(s)) + 1, Len(s))

\* haystack[i : i+len(needle)] == needle, the whole needle inside haystack
OccursAt(needle, haystack, i) ==
    /\ i >= 0
    /\ i + Len(needle) <= Len(haystack)
    /\ SubSeq(haystack, i + 1, i + Len(needle)) = needle

\* haystack.find(needle, start), start >= 0: lowest index >= start, or -1
Find(needle, haystack, start) ==
    LET hits == {i \in start..Len(haystack) : OccursAt(needle, haystack, i)}
    IN  IF hits = {} THEN -1 ELSE SetMin(hits)

\* stream.read(size) at file position pos: up to size bytes, fewer only at
\* the end of the stream, none at or beyond it; none for size 0 and all the
\* bytes left for a negative size
StreamRead(s, pos, size) ==
    IF pos >= Len(s) THEN <<>>
    ELSE SubSeq(s, pos + 1,
                IF size < 0 THEN Len(s) ELSE Min2(Len(s), pos + size))

\* ------------------------------------------------------ iter_needles_idx
FirstIndex(needle, haystack) == Find(needle, haystack, 0)

\* the search resumed behind the whole needle: overlapping hits are skipped
NextIndexSkipNeedle(needle, haystack, index) ==
    Find(needle, haystack, index + Len(needle))

NextIndex(needle, haystack, index) == Find(needle, haystack, index + 1)

\* ------------------------------------------------------------ scan_stream
InitialPosition == -1

\* the tail sized by the context width alone
TailOfNoPattern(chunk, around, len_pattern) == PySliceFrom(chunk, -around)

\* the tail never trimmed: the whole window is carried
TailOfWholeChunk(chunk, around, len_pattern) == chunk

\* tail = chunk[-(around_context + len_pattern):]
TailOf(chunk, around, len_pattern) ==
    PySliceFrom(chunk, -(around + len_pattern))

\* the PipeekMatch yielded for a hit at index of chunk (elapsed_time left out)
MakeMatch(pat, chunk, position, index, around) ==
    [ match_value       |-> pat,
      absolute_position |-> position + index,
      left_context      |-> PySlice(chunk, Max2(0, index - around), index),
      right_context     |-> PySlice(chunk, index + Len(pat),
                                    index + Len(pat) + around) ]

VARIABLES
    stream,          \* the bytes behind the opened stream
    compressed,      \* open_stream returned a decompressing reader
    fpos,            \* the stream's file position
    pattern,         \* scan_stream argument
    around_context,  \* scan_stream argument / conf.around_context
    buffer_size,     \* scan_stream argument
    tail,            \* scan_stream local
    position,        \* scan_stream local
    chunk,           \* scan_stream local: tail + bytes just read
    index,           \* iter_needles_idx local; -1 when exhausted
    yielded,         \* the PipeekMatch values handed out so far, in order
    found,           \* for each yielded match, the stream offset it sits at
    peek_index,      \* peek_at argument index
    peek_length,     \* peek_at argument length
    peek_match,      \* the PipeekMatch peek_at built, <<>> when none
    hash_name,       \* check_sum argument name
    hexdigested_hash,\* check_sum argument: the expected digest
    hash_fed,        \* the bytes the hash object was updated with
    check_sum_result,\* what check_sum returned
    command,         \* the function that consumes walk: "walk", "needle", "at"
    fs_files,        \* the regular files of the filesystem
    roots,           \* walk argument, as the set {Path(p) for p in roots}
    paths,           \* walk: the roots the for loop has not reached yet
    walk_queue,      \* walk: files of the os.walk under way not yielded yet
    walked,          \* the paths walk yielded so far, in order
    content,         \* the bytes of each regular file of the filesystem
    max_matches,     \* conf.max_matches
    is_open,         \* the stream of the with block is open
    hit,             \* peek_needle / peek_at local
    emitted,         \* the matches echoed so far, over all files, in order
    exit_code,       \* the status handed to sys.exit, -1 while running
    exit_path,       \* how the process ended: "end", "cap", "error"
    indices,         \* the indices iter_needles_idx yielded so far, in order
    first_walk,      \* the paths an earlier walk of the same roots yielded
    walk_runs,       \* how many earlier walks of the same roots are over
    conf_dict,       \* conf._conf_dict
    conf_file,       \* the JSON object stored at JSON_CONFIG_PATH
    conf_attrs,      \* the attributes __init__ has set on conf
    conf_last,       \* the last conf call and the state it was made in
    pc               \* where the running function stands

vars == <<stream, compressed, fpos, pattern, around_context, buffer_size,
          tail, position, chunk, index, yielded, found,
          peek_index, peek_length, peek_match,
          hash_name, hexdigested_hash, hash_fed, check_sum_result,
          command, fs_files, roots, paths, walk_queue, walked,
          content, max_matches, is_open, hit, emitted, exit_code, exit_path,
          indices, first_walk, walk_runs, conf_dict, conf_file, conf_attrs,
          conf_last, pc>>

scanArgs == <<stream, compressed, pattern, around_context, buffer_size>>
peekVars == <<peek_index, peek_length, peek_match>>
sumVars == <<hash_name, hexdigested_hash, hash_fed, check_sum_result>>
walkVars == <<command, fs_files, roots, paths, walk_queue, walked>>
cliVars == <<content, max_matches, is_open, hit, emitted, exit_code,
             exit_path>>
confVars == <<conf_dict, conf_file, conf_attrs, conf_last>>
extraVars == <<indices, first_walk, walk_runs, confVars>>
otherVars == <<sumVars, walkVars, cliVars, extraVars>>

\* no iter_needles_idx call of its own, no second walk and no conf call is
\* under way
NoExtra ==
    /\ indices = <<>>
    /\ first_walk = <<>>
    /\ walk_runs = 0
    /\ conf_dict = <<>>
    /\ conf_file = <<>>
    /\ conf_attrs = <<>>
    /\ conf_last = <<>>

\* no peek_needle or peek_at call is under way
NoCli ==
    /\ content = <<>>
    /\ max_matches = 0
    /\ is_open = FALSE
    /\ hit = FALSE
    /\ emitted = <<>>
    /\ exit_code = -1
    /\ exit_path = "none"

\* a match kept back instead of handed to the consumer
AfterMatchYieldKeptBack == "scan"

\* where control goes when scan_stream yields a match: into the body of
\* the consumer's for loop
AfterMatchYield == IF command = "needle" THEN "echo" ELSE "scan"

\* no walk call is under way
NoWalk ==
    /\ command = "none"
    /\ fs_files = {}
    /\ roots = {}
    /\ paths = {}
    /\ walk_queue = <<>>
    /\ walked = <<>>

\* the digest of a hash object: no two contents, and no two algorithms,
\* share a digest
HexDigest(name, fed) == [algorithm |-> name, of |-> fed]

\* no check_sum call is under way
NoCheckSum ==
    /\ hash_name = "md5"
    /\ hexdigested_hash = HexDigest("md5", <<>>)
    /\ hash_fed = <<>>
    /\ check_sum_result = FALSE

\* no peek_at call is under way
NoPeekAt ==
    /\ peek_index = 0
    /\ peek_length = 0
    /\ peek_match = <<>>

\* no scan_stream call is under way
NoScan ==
    /\ pattern = <<>>
    /\ buffer_size = 1
    /\ tail = <<>>
    /\ position = InitialPosition
    /\ chunk = <<>>
    /\ index = -1
    /\ yielded = <<>>
    /\ found = <<>>

\* ---------------------------------------------------------- Init (scan)
Init ==
    /\ stream \in BytesUpTo(MaxStream)
    /\ compressed = FALSE
    /\ fpos = 0
    /\ pattern \in BytesUpTo(MaxPattern)
    /\ around_context \in 0..MaxAround
    /\ buffer_size \in 1..MaxBuffer
    /\ tail = <<>>
    /\ position = InitialPosition
    /\ chunk = <<>>
    /\ index = -1
    /\ yielded = <<>>
    /\ found = <<>>
    /\ peek_index = 0
    /\ peek_length = 0
    /\ peek_match = <<>>
    /\ NoCheckSum
    /\ NoWalk
    /\ NoCli
    /\ NoExtra
    /\ pc = "read"

\* while chunk := stream.read(buffer_size): chunk = tail + chunk;
\* the for loop calls iter_needles_idx, which runs its first find
ReadChunk ==
    /\ pc = "read"
    /\ LET data == StreamRead(stream, fpos, buffer_size) IN
        /\ data # <<>>
        /\ fpos' = fpos + Len(data)
        /\ chunk' = tail \o data
        /\ index' = FirstIndex(pattern, chunk')
    /\ pc' = "scan"
    /\ UNCHANGED <<scanArgs, tail, position, yielded, found, peekVars, otherVars>>

\* a read at the end of the stream that never returns
ReadEOFBlocks ==
    /\ pc = "read"
    /\ FALSE
    /\ UNCHANGED vars

\* the read returns b"": the while loop ends and the generator is exhausted
ReadEOF ==
    /\ pc = "read"
    /\ StreamRead(stream, fpos, buffer_size) = <<>>
    /\ pc' = "done"
    /\ UNCHANGED <<scanArgs, fpos, tail, position, chunk, index, yielded,
                   found, peekVars, otherVars>>

\* one turn of the for loop: yield the match at index, then the generator
\* iter_needles_idx is resumed and runs its next find
YieldMatch ==
    /\ pc = "scan"
    /\ index # -1
    /\ yielded' = Append(yielded,
                     MakeMatch(pattern, chunk, position, index, around_context))
    /\ found' = Append(found, fpos - Len(chunk) + index)
    /\ index' = NextIndex(pattern, chunk, index)
    /\ pc' = AfterMatchYield
    /\ UNCHANGED <<scanArgs, fpos, tail, position, chunk, peekVars, otherVars>>

\* the for loop is over: keep the tail and advance position
EndChunk ==
    /\ pc = "scan"
    /\ index = -1
    /\ tail' = TailOf(chunk, around_context, Len(pattern))
    /\ position' = position + Len(chunk) - Len(tail')
    /\ pc' = "read"
    /\ UNCHANGED <<scanArgs, fpos, chunk, index, yielded, found, peekVars, otherVars>>

Next == ReadChunk \/ ReadEOF \/ YieldMatch \/ EndChunk

Spec == Init /\ [][Next]_vars

\* the consumer keeps pulling: a fully consumed scan takes every step it can
SpecLive == Init /\ [][Next]_vars /\ WF_vars(Next)

\* ------------------------------------------- scan_stream, run to the end
\* the matches the for loop yields for one chunk, from index on
RECURSIVE ChunkMatches(_, _, _, _, _)
ChunkMatches(pat, ch, pos, around, idx) ==
    IF idx = -1 THEN <<>>
    ELSE <<MakeMatch(pat, ch, pos, idx, around)>>
         \o ChunkMatches(pat, ch, pos, around, NextIndex(pat, ch, idx))

\* the while loop from file position at, with the locals tl and pos
RECURSIVE ScanFrom(_, _, _, _, _, _, _)
ScanFrom(s, at, tl, pos, pat, around, size) ==
    LET data == StreamRead(s, at, size)
        ch   == tl \o data
        nt   == TailOf(ch, around, Len(pat))
    IN  IF data = <<>> THEN <<>>
        ELSE ChunkMatches(pat, ch, pos, around, FirstIndex(pat, ch))
             \o ScanFrom(s, at + Len(data), nt, pos + Len(ch) - Len(nt),
                         pat, around, size)

\* list(scan_stream(stream, pat, around, size)) on a freshly opened stream
ScanStream(s, pat, around, size) ==
    ScanFrom(s, 0, <<>>, InitialPosition, pat, around, size)

\* ---------------------------------------------------------------- peek_at
SeekFailed == -1

\* file.seek(target): a plain file refuses a negative target and accepts
\* one beyond the end; a decompressing reader rewinds for a negative target
\* and stops at the end of the data
SeekTo(isCompressed, target, n) ==
    IF isCompressed THEN Max2(0, Min2(target, n))
    ELSE IF target < 0 THEN SeekFailed ELSE target

\* offset = max(0, around); the three slices of the bytes read
PeekSplit(data, idx, length, around) ==
    LET offset == Max2(0, around) IN
    [ match_value       |-> PySlice(data, offset, offset + length),
      absolute_position |-> idx,
      left_context      |-> PySlice(data, 0, offset),
      right_context     |-> PySliceFrom(data, offset + length) ]

InitPeekAt ==
    /\ stream \in BytesUpTo(MaxStream)
    /\ compressed \in BOOLEAN
    /\ fpos = 0
    /\ pattern = <<>>
    /\ around_context \in 0..MaxAround
    /\ buffer_size = 1
    /\ tail = <<>>
    /\ position = InitialPosition
    /\ chunk = <<>>
    /\ index = -1
    /\ yielded = <<>>
    /\ found = <<>>
    /\ peek_index \in 0..MaxIndex
    /\ peek_length \in 0..MaxLength
    /\ peek_match = <<>>
    /\ NoCheckSum
    /\ NoWalk
    /\ NoCli
    /\ NoExtra
    /\ pc = "peek"

scanLocals == <<pattern, buffer_size, tail, position, index, yielded, found>>

\* _handler: seek, read, split, build the match
PeekAt ==
    /\ pc = "peek"
    /\ LET at == SeekTo(compressed, peek_index - around_context, Len(stream))
           data == StreamRead(stream, at, peek_length + 2 * around_context)
       IN  /\ at # SeekFailed
           /\ fpos' = at + Len(data)
           /\ chunk' = data
           /\ peek_match' = PeekSplit(data, peek_index, peek_length,
                                      around_context)
    /\ pc' = "peek_done"
    /\ UNCHANGED <<stream, compressed, around_context, scanLocals,
                   peek_index, peek_length, otherVars>>

\* _handler: file.seek raises, the exception leaves the with block
PeekAtSeekError ==
    /\ pc = "peek"
    /\ SeekTo(compressed, peek_index - around_context, Len(stream)) = SeekFailed
    /\ pc' = "peek_error"
    /\ UNCHANGED <<stream, compressed, fpos, around_context, chunk, scanLocals,
                   peekVars, otherVars>>

NextPeekAt == PeekAt \/ PeekAtSeekError

SpecPeekAt == InitPeekAt /\ [][NextPeekAt]_vars

\* ------------------------------------------------------ model consistency
\* the chunk under scan is the stream bytes just before the file position
ChunkIsStreamSlice ==
    pc \in {"read", "scan", "done"} =>
        /\ Len(chunk) <= fpos
        /\ chunk = SubSeq(stream, fpos - Len(chunk) + 1, fpos)

\* the stepwise scan and ScanStream yield the same matches
ScanStreamAgrees ==
    pc = "done" =>
        yielded = ScanStream(stream, pattern, around_context, buffer_size)

ValidScanArgs == pattern # <<>> /\ around_context >= 0 /\ buffer_size > 0

\* ------------------------------------------------------- claims, scan_stream
lenPattern == Len(pattern)

\* C1: over a whole scan no occurrence of the pattern, identified by its
\* start offset in the stream, is yielded more than once.
C1_NoDoubleCount ==
    ValidScanArgs =>
        \A i, j \in DOMAIN found : i # j => found[i] # found[j]

\* C2: when the scan is over, every start offset at which the pattern occurs
\* in the stream has been yielded as a match at least once, occurrences that
\* lie across two chunk reads included.
C2_NoOccurrenceMissed ==
    (pc = "done" /\ ValidScanArgs) =>
        \A o \in 0..Len(stream) :
            OccursAt(pattern, stream, o) =>
                \E k \in DOMAIN found :
                    found[k] = o /\ yielded[k].match_value = pattern

\* a finished scan that yielded an occurrence whose bytes came from two reads
C2_Witness ==
    /\ pc = "done"
    /\ ValidScanArgs
    /\ \E k \in DOMAIN found :
          found[k] \div buffer_size
              # (found[k] + lenPattern - 1) \div buffer_size

\* C3: the absolute_position of every yielded match is the 0-based start
\* offset of the occurrence in the stream.
C3_AbsolutePositionIsOffset ==
    ValidScanArgs =>
        \A k \in DOMAIN yielded : yielded[k].absolute_position = found[k]

\* C4: every yielded match has 0 <= absolute_position and
\* absolute_position + len(pattern) <= length of the stream.
C4_PositionInRange ==
    ValidScanArgs =>
        \A k \in DOMAIN yielded :
            /\ 0 <= yielded[k].absolute_position
            /\ yielded[k].absolute_position + lenPattern <= Len(stream)

\* C5: matches are yielded in strictly increasing absolute_position order.
C5_StrictlyIncreasing ==
    ValidScanArgs =>
        \A i, j \in DOMAIN yielded :
            i < j => yielded[i].absolute_position < yielded[j].absolute_position

\* C6: a finished scan yields the same sequence of matches as a scan of the
\* same stream with any other chunk size, both chunk sizes being larger than
\* around + len(pattern) - 1.
C6_ChunkingNotObservable ==
    (pc = "done" /\ ValidScanArgs) =>
        \A other \in 1..MaxBuffer :
            around_context + lenPattern - 1 < Min2(buffer_size, other) =>
                yielded = ScanStream(stream, pattern, around_context, other)

\* C7: when around + len(pattern) <= buffer_size, the right_context of every
\* yielded match is the min(around, bytes remaining) stream bytes that follow
\* the occurrence.
C7_RightContextExact ==
    (ValidScanArgs /\ around_context + lenPattern <= buffer_size) =>
        \A k \in DOMAIN yielded :
            yielded[k].right_context =
                SubSeq(stream, found[k] + lenPattern + 1,
                       Min2(Len(stream),
                            found[k] + lenPattern + around_context))

\* C8: the left_context of every yielded match is the min(around, p) stream
\* bytes that precede the occurrence at stream offset p.
C8_LeftContextExact ==
    ValidScanArgs =>
        \A k \in DOMAIN yielded :
            yielded[k].left_context =
                SubSeq(stream, Max2(0, found[k] - around_context) + 1, found[k])

\* C9: with an empty pattern the scan fails before any read is issued on the
\* stream and yields no match.
C9_EmptyPatternRejected ==
    pattern = <<>> =>
        /\ pc \in {"read", "invalid_argument"}
        /\ fpos = 0
        /\ yielded = <<>>

\* --------------------------------------------------------- claims, peek_at
\* C10: peek_at returns a match whose left_context + window + right_context
\* is stream[max(0, k-a) : k+n+a], also when k < a.
C10_PeekRoundTrip ==
    pc \in {"peek_done", "peek_error"} =>
        /\ pc = "peek_done"
        /\ peek_match.left_context \o peek_match.match_value
                \o peek_match.right_context
           = PySlice(stream, Max2(0, peek_index - around_context),
                     peek_index + peek_length + around_context)

\* C22: for every offset k, length n and context width a the window is
\* stream[k : k+n], the left context is the min(a, k) bytes before offset k
\* and the right context is the bytes after the window, also when k < a.
C22_PeekWindowExact ==
    pc \in {"peek_done", "peek_error"} =>
        /\ pc = "peek_done"
        /\ peek_match.match_value
           = PySlice(stream, peek_index, peek_index + peek_length)
        /\ peek_match.left_context
           = PySlice(stream, Max2(0, peek_index - around_context), peek_index)
        /\ peek_match.right_context
           = PySlice(stream, peek_index + peek_length,
                     peek_index + peek_length + around_context)

\* ------------------------------ scan_stream called with invalid numbers
\* buffer_size or around_context outside what the documentation allows
InitInvalidArgs ==
    /\ stream \in BytesUpTo(MaxStream)
    /\ compressed = FALSE
    /\ fpos = 0
    /\ pattern \in BytesUpTo(MaxPattern) \ {<<>>}
    /\ around_context \in (-MaxAround)..MaxAround
    /\ buffer_size \in (-1)..MaxBuffer
    /\ buffer_size <= 0 \/ around_context < 0
    /\ tail = <<>>
    /\ position = InitialPosition
    /\ chunk = <<>>
    /\ index = -1
    /\ yielded = <<>>
    /\ found = <<>>
    /\ NoPeekAt
    /\ NoCheckSum
    /\ NoWalk
    /\ NoCli
    /\ NoExtra
    /\ pc = "read"

SpecInvalidArgs == InitInvalidArgs /\ [][Next]_vars

\* C23: with buffer_size <= 0 or around_context < 0 the scan fails before
\* any read is issued on the stream; it never returns an empty or partial
\* match sequence.
C23_InvalidNumbersRejected ==
    (buffer_size <= 0 \/ around_context < 0) =>
        /\ pc \in {"read", "invalid_argument"}
        /\ fpos = 0
        /\ yielded = <<>>
        /\ chunk = <<>>

\* ------------------------------------------- claims, scan_stream internals
\* C17: between two windows the tail is the last around + len(pattern) - 1
\* bytes of the window just scanned (the whole window when it is shorter) and
\* position is the stream offset of the first byte of tail.
C17_TailAndPosition ==
    (pc = "read" /\ ValidScanArgs /\ fpos > 0) =>
        /\ Len(tail) = Min2(Len(chunk), around_context + lenPattern - 1)
        /\ tail = SubSeq(chunk, Len(chunk) - Len(tail) + 1, Len(chunk))
        /\ position = fpos - Len(tail)

\* C18: when around + len(pattern) - 1 >= buffer_size (in particular when
\* the pattern is longer than a chunk), every read that returns bytes makes
\* the window longer than the carried tail, and at the end of the scan every
\* occurrence of the pattern in the stream has been yielded.
C18_LongPatternFound ==
    (ValidScanArgs /\ around_context + lenPattern - 1 >= buffer_size) =>
        /\ pc = "scan" => Len(chunk) > Len(tail)
        /\ pc = "done" =>
              \A o \in 0..Len(stream) :
                  OccursAt(pattern, stream, o) => \E k \in DOMAIN found :
                                                      found[k] = o

\* a finished scan that found a pattern longer than the chunk size
C18_Witness ==
    /\ pc = "done"
    /\ lenPattern > buffer_size
    /\ found # <<>>

\* C19: a fully consumed scan terminates: the generator is eventually
\* exhausted.
C19_Terminates == <>(pc = "done")

\* a scan that ended after more than one read and yielded matches
C19_Witness ==
    /\ pc = "done"
    /\ ValidScanArgs
    /\ fpos > buffer_size
    /\ yielded # <<>>

\* C20: with a non-empty pattern, len(tail) <= around + len(pattern) and
\* len(window) <= buffer_size + around + len(pattern) in every state.
C20_BoundedMemory ==
    ValidScanArgs =>
        /\ Len(tail) <= around_context + lenPattern
        /\ Len(chunk) <= buffer_size + around_context + lenPattern

\* a window as long as the bound allows, after at least two reads
C20_Witness ==
    /\ ValidScanArgs
    /\ pc = "scan"
    /\ Len(tail) = around_context + lenPattern
    /\ Len(chunk) = buffer_size + around_context + lenPattern

\* -------------------------------------------------------------- check_sum
CheckSumReadSize == 8388608

HashNames == {"md5", "sha1"}

InitCheckSum ==
    /\ stream \in BytesUpTo(MaxStream)
    /\ compressed = FALSE
    /\ fpos = 0
    /\ around_context = 0
    /\ NoScan
    /\ NoPeekAt
    /\ hash_name \in HashNames
    /\ hexdigested_hash \in
          {HexDigest(n, b) : n \in HashNames, b \in BytesUpTo(MaxStream)}
    /\ hash_fed = <<>>
    /\ check_sum_result = FALSE
    /\ NoWalk
    /\ NoCli
    /\ NoExtra
    /\ pc = "check_sum"

\* the single read returns b"": the for loop has nothing to iterate over and
\* the digest of the untouched hash object is compared
CheckSumReturn ==
    /\ pc = "check_sum"
    /\ StreamRead(stream, fpos, CheckSumReadSize) = <<>>
    /\ check_sum_result' = (HexDigest(hash_name, hash_fed) = hexdigested_hash)
    /\ pc' = "check_sum_done"
    /\ UNCHANGED <<scanArgs, fpos, scanLocals, chunk, peekVars,
                   hash_name, hexdigested_hash, hash_fed, walkVars, cliVars,
                   extraVars>>

\* the single read returns bytes: the for loop iterates over the bytes
\* object, whose items are ints, and hash.update(int) raises TypeError
CheckSumTypeError ==
    /\ pc = "check_sum"
    /\ LET data == StreamRead(stream, fpos, CheckSumReadSize) IN
        /\ data # <<>>
        /\ fpos' = fpos + Len(data)
    /\ pc' = "check_sum_error"
    /\ UNCHANGED <<scanArgs, scanLocals, chunk, peekVars, sumVars, walkVars,
                   cliVars, extraVars>>

NextCheckSum == CheckSumReturn \/ CheckSumTypeError

SpecCheckSum == InitCheckSum /\ [][NextCheckSum]_vars

\* C11: check_sum returns, and it returns true exactly when the expected
\* digest is the digest of the whole stream content under the named
\* algorithm, for an empty stream and for a stream of any length.
C11_CheckSumDecides ==
    pc \in {"check_sum_done", "check_sum_error"} =>
        /\ pc = "check_sum_done"
        /\ check_sum_result = (hexdigested_hash = HexDigest(hash_name, stream))

\* ------------------------------------------------------------------- walk
MaxRoots == 3       \* most roots handed to one walk call

\* a path is the sequence of its parts; the directories of the filesystem
Dirs == {<<"d">>, <<"d", "e">>}

\* the paths that may be regular files
FileNames == {<<"f">>, <<"d", "g">>, <<"d", "e", "h">>}

\* the order in which a directory lists its entries
ListingOrder ==
    << <<"d">>, <<"f">>, <<"d", "e">>, <<"d", "g">>, <<"d", "e", "h">> >>

Parent(p) == SubSeq(p, 1, Len(p) - 1)

\* path.is_dir()
IsDir(p) == p \in Dirs

RECURSIVE ConcatAll(_)
ConcatAll(ss) == IF ss = <<>> THEN <<>> ELSE Head(ss) \o ConcatAll(Tail(ss))

\* the files os.walk(top) gives, top-down: the files of top, then those of
\* each subdirectory, each joined to its dirpath
RECURSIVE OsWalk(_, _)
OsWalk(top, files) ==
    LET here    == SelectSeq(ListingOrder,
                       LAMBDA p : p \in files /\ Parent(p) = top)
        subdirs == SelectSeq(ListingOrder,
                       LAMBDA p : IsDir(p) /\ Parent(p) = top)
    IN  here \o ConcatAll([k \in DOMAIN subdirs |-> OsWalk(subdirs[k], files)])

\* where control goes when walk yields a path
AfterWalkYield == IF command = "walk" THEN "walk" ELSE "open"

InitWalk ==
    /\ stream = <<>>
    /\ compressed = FALSE
    /\ fpos = 0
    /\ around_context = 0
    /\ NoScan
    /\ NoPeekAt
    /\ NoCheckSum
    /\ command = "walk"
    /\ fs_files \in SUBSET FileNames
    /\ roots \in {r \in SUBSET (Dirs \cup FileNames) : Cardinality(r) <= MaxRoots}
    /\ paths = roots
    /\ walk_queue = <<>>
    /\ walked = <<>>
    /\ NoCli
    /\ NoExtra
    /\ pc = "walk"

walkFrame == <<scanArgs, fpos, scanLocals, chunk, peekVars, sumVars,
               command, fs_files, roots, cliVars, extraVars>>

\* for path in paths: the root is not a directory and is yielded as it is
WalkRootFile ==
    /\ pc = "walk"
    /\ walk_queue = <<>>
    /\ \E p \in paths :
        /\ ~IsDir(p)
        /\ paths' = paths \ {p}
        /\ walked' = Append(walked, p)
    /\ pc' = AfterWalkYield
    /\ UNCHANGED <<walkFrame, walk_queue>>

\* for path in paths: the root is a directory, os.walk starts on it
WalkRootDir ==
    /\ pc = "walk"
    /\ walk_queue = <<>>
    /\ \E p \in paths :
        /\ IsDir(p)
        /\ paths' = paths \ {p}
        /\ walk_queue' = OsWalk(p, fs_files)
    /\ UNCHANGED <<walkFrame, walked, pc>>

\* for filename in filenames: yield Path(dirpath) / filename
WalkDirFile ==
    /\ pc = "walk"
    /\ walk_queue # <<>>
    /\ walked' = Append(walked, Head(walk_queue))
    /\ walk_queue' = Tail(walk_queue)
    /\ pc' = AfterWalkYield
    /\ UNCHANGED <<walkFrame, paths>>

\* the for loop over paths is over: the generator is exhausted
WalkEnd ==
    /\ pc = "walk"
    /\ walk_queue = <<>>
    /\ paths = {}
    /\ pc' = "walk_done"
    /\ UNCHANGED <<walkFrame, paths, walk_queue, walked>>

NextWalk == WalkRootFile \/ WalkRootDir \/ WalkDirFile \/ WalkEnd

SpecWalk == InitWalk /\ [][NextWalk]_vars

\* p lies under the directory d
Under(p, d) == Len(p) > Len(d) /\ SubSeq(p, 1, Len(d)) = d

\* C12: when a walk call is over, every root that is not a directory and
\* every regular file under every directory root has been yielded, and no
\* path has been yielded more than once.
C12_WalkCoversOnce ==
    (command = "walk" /\ pc = "walk_done") =>
        /\ \A r \in roots : ~IsDir(r) => \E k \in DOMAIN walked : walked[k] = r
        /\ \A r \in roots : \A f \in fs_files :
              (IsDir(r) /\ Under(f, r)) => \E k \in DOMAIN walked : walked[k] = f
        /\ \A i, j \in DOMAIN walked : i # j => walked[i] # walked[j]

\* --------------------------------------- walk, the same call made again
\* the program is run once more with the same roots on the same filesystem:
\* what the first walk yielded is kept and the set of roots is built anew;
\* the order in which the for loop visits that set follows the hashes of the
\* paths, which differ from one interpreter process to the next
WalkAgain ==
    /\ pc = "walk_done"
    /\ command = "walk"
    /\ walk_runs = 0
    /\ first_walk' = walked
    /\ walk_runs' = walk_runs + 1
    /\ paths' = roots
    /\ walk_queue' = <<>>
    /\ walked' = <<>>
    /\ pc' = "walk"
    /\ UNCHANGED <<scanArgs, fpos, scanLocals, chunk, peekVars, sumVars,
                   command, fs_files, roots, cliVars, indices, confVars>>

NextWalkTwice == NextWalk \/ WalkAgain

SpecWalkTwice == InitWalk /\ [][NextWalkTwice]_vars

\* C24: walk is deterministic: a second walk of the same roots on the same
\* filesystem state yields the same paths in the same order as the first.
C24_WalkDeterministic ==
    (command = "walk" /\ pc = "walk_done" /\ walk_runs = 1) =>
        walked = first_walk

\* ---------------------------------------------------- peek_needle, peek_at
MaxFileLen == 3     \* longest file of the haystack
MaxCap == 2         \* largest conf.max_matches
MaxCliBuffer == 2   \* largest chunk size of a peek_needle run
MaxCliAround == 1   \* largest conf.around_context of a run
MaxCliIndex == 1    \* largest index handed to a peek_at run

\* sys.exit(0 if hit else 1)
ExitCodeAlwaysZero(h) == 0

ExitCode(h) == IF h THEN 0 ELSE 1

\* the with block left by an exception or SystemExit without closing
StreamOpenAfterNoWith(how) == how # "return"

\* with open_stream(...) as file: the stream is closed when the block is
\* left, by a return, by SystemExit or by another exception
StreamOpenAfter(how) == FALSE

\* conf.max_matches != 0 and (i + 1 >= conf.max_matches)
CapReached(i, cap) == cap # 0 /\ i + 1 >= cap

\* the file walk yielded last: the filepath of the running _handler
CurrentFile == walked[Len(walked)]

InitCli ==
    /\ command \in {"needle", "at"}
    /\ \E haystack \in Dirs \cup FileNames :
        /\ roots = {haystack}
        /\ fs_files \in SUBSET {f \in FileNames :
                                   f = haystack \/ Under(f, haystack)}
    /\ content \in {c \in [FileNames -> BytesUpTo(MaxFileLen)] :
                       \A f \in FileNames \ fs_files : c[f] = <<>>}
    /\ paths = roots
    /\ walk_queue = <<>>
    /\ walked = <<>>
    /\ stream = <<>>
    /\ fpos = 0
    /\ around_context \in 0..MaxCliAround
    /\ tail = <<>>
    /\ position = InitialPosition
    /\ chunk = <<>>
    /\ index = -1
    /\ yielded = <<>>
    /\ found = <<>>
    /\ peek_match = <<>>
    /\ NoCheckSum
    /\ NoExtra
    /\ IF command = "needle"
       THEN /\ pattern = <<"X">>
            /\ buffer_size \in 1..MaxCliBuffer
            /\ max_matches \in 0..MaxCap
            /\ compressed = FALSE
            /\ peek_index = 0
            /\ peek_length = 0
       ELSE /\ pattern = <<>>
            /\ buffer_size = 1
            /\ max_matches = 0
            /\ compressed \in BOOLEAN
            /\ peek_index \in 0..MaxCliIndex
            /\ peek_length = 1
    /\ is_open = FALSE
    /\ hit = FALSE
    /\ emitted = <<>>
    /\ exit_code = -1
    /\ exit_path = "none"
    /\ pc = "walk"

cliArgs == <<command, fs_files, roots, content, max_matches, pattern,
             around_context, buffer_size, compressed, peek_index, peek_length,
             sumVars, extraVars>>
walkState == <<paths, walk_queue, walked>>

\* _handler(file): with open_stream(filepath) as file, on an existing file;
\* a scan or a peek starts on the fresh stream
OpenStream ==
    /\ pc = "open"
    /\ CurrentFile \in fs_files
    /\ stream' = content[CurrentFile]
    /\ fpos' = 0
    /\ is_open' = TRUE
    /\ tail' = <<>>
    /\ position' = InitialPosition
    /\ chunk' = <<>>
    /\ index' = -1
    /\ yielded' = <<>>
    /\ found' = <<>>
    /\ peek_match' = <<>>
    /\ pc' = IF command = "needle" THEN "read" ELSE "peek"
    /\ UNCHANGED <<cliArgs, walkState, hit, emitted, exit_code, exit_path>>

\* open_stream on a path that is no file raises; nothing catches it
OpenFails ==
    /\ pc = "open"
    /\ CurrentFile \notin fs_files
    /\ exit_code' = 1
    /\ exit_path' = "error"
    /\ pc' = "exited"
    /\ UNCHANGED <<cliArgs, walkState, stream, fpos, is_open, tail, position,
                   chunk, index, yielded, found, peek_match, hit, emitted>>

\* the body of peek_needle's for loop on the match just yielded, the cap
\* not reached: echo_match, hit = True, back into the generator
EchoMatch ==
    /\ pc = "echo"
    /\ emitted' = Append(emitted, [file  |-> CurrentFile,
                                   match |-> yielded[Len(yielded)]])
    /\ hit' = TRUE
    /\ ~CapReached(Len(yielded) - 1, max_matches)
    /\ pc' = "scan"
    /\ UNCHANGED <<cliArgs, walkState, stream, fpos, is_open, tail, position,
                   chunk, index, yielded, found, peek_match, exit_code,
                   exit_path>>

\* the same body, the cap reached: sys.exit(0 if hit else 1) leaves the with
\* block and ends the process
EchoMatchExit ==
    /\ pc = "echo"
    /\ emitted' = Append(emitted, [file  |-> CurrentFile,
                                   match |-> yielded[Len(yielded)]])
    /\ hit' = TRUE
    /\ CapReached(Len(yielded) - 1, max_matches)
    /\ exit_code' = ExitCode(hit')
    /\ exit_path' = "cap"
    /\ is_open' = StreamOpenAfter("SystemExit")
    /\ pc' = "exited"
    /\ UNCHANGED <<cliArgs, walkState, stream, fpos, tail, position, chunk,
                   index, yielded, found, peek_match>>

\* scan_stream is exhausted: the for loop and the with block end, _handler
\* returns to the loop over walk
HandlerReturn ==
    /\ pc = "done"
    /\ command = "needle"
    /\ is_open' = StreamOpenAfter("return")
    /\ pc' = "walk"
    /\ UNCHANGED <<cliArgs, walkState, stream, fpos, tail, position, chunk,
                   index, yielded, found, peek_match, hit, emitted, exit_code,
                   exit_path>>

\* peek_at._handler after the split: hit = True, echo_match, the with block
\* ends, _handler returns to the loop over walk
PeekAtReturn ==
    /\ pc = "peek_done"
    /\ command = "at"
    /\ hit' = TRUE
    /\ emitted' = Append(emitted, [file |-> CurrentFile, match |-> peek_match])
    /\ is_open' = StreamOpenAfter("return")
    /\ pc' = "walk"
    /\ UNCHANGED <<cliArgs, walkState, stream, fpos, tail, position, chunk,
                   index, yielded, found, peek_match, exit_code, exit_path>>

\* the exception of file.seek leaves the with block; nothing catches it
PeekAtRaise ==
    /\ pc = "peek_error"
    /\ command = "at"
    /\ is_open' = StreamOpenAfter("exception")
    /\ exit_code' = 1
    /\ exit_path' = "error"
    /\ pc' = "exited"
    /\ UNCHANGED <<cliArgs, walkState, stream, fpos, tail, position, chunk,
                   index, yielded, found, peek_match, hit, emitted>>

\* the loop over walk is over: sys.exit(0 if hit else 1)
CliExit ==
    /\ pc = "walk_done"
    /\ command \in {"needle", "at"}
    /\ exit_code' = ExitCode(hit)
    /\ exit_path' = "end"
    /\ pc' = "exited"
    /\ UNCHANGED <<cliArgs, walkState, stream, fpos, is_open, tail, position,
                   chunk, index, yielded, found, peek_match, hit, emitted>>

NextCli ==
    \/ WalkRootFile \/ WalkRootDir \/ WalkDirFile \/ WalkEnd
    \/ OpenStream \/ OpenFails
    \/ ReadChunk \/ ReadEOF \/ YieldMatch \/ EndChunk
    \/ EchoMatch \/ EchoMatchExit \/ HandlerReturn
    \/ PeekAt \/ PeekAtSeekError \/ PeekAtReturn \/ PeekAtRaise
    \/ CliExit

SpecCli == InitCli /\ [][NextCli]_vars

\* the matches echoed for the file of the running _handler
EmittedOfCurrent ==
    LET mine == SelectSeq(emitted, LAMBDA e : e.file = CurrentFile)
    IN  [k \in 1..Len(mine) |-> mine[k].match]

\* C13: when the traversal ends normally or the match cap is reached, the
\* process exits with code 0 if and only if at least one match or read was
\* emitted over all walked files.
C13_ExitCodeTellsHit ==
    (pc = "exited" /\ exit_path \in {"end", "cap"}) =>
        (exit_code = 0 <=> emitted # <<>>)

\* a run over two files that ended normally after emitting something
C13_Witness ==
    /\ pc = "exited"
    /\ exit_path = "end"
    /\ Len(walked) >= 2
    /\ emitted # <<>>
    /\ exit_code = 0

\* C14: the step that ends the process, by the cap or by an exception,
\* leaves the stream closed and issues no read on it.
C14_ClosedOnEveryExit ==
    [][pc' = "exited" => (is_open' = FALSE /\ fpos' = fpos)]_vars

\* a run ended by the cap while bytes of the stream were still unread
C14_Witness ==
    /\ pc = "exited"
    /\ exit_path = "cap"
    /\ fpos < Len(stream)
    /\ is_open = FALSE

\* C15: whenever a read is about to be issued on the stream, every match of
\* the windows built from the reads so far has been handed to the consumer.
C15_HandedBeforeNextRead ==
    (command = "needle" /\ pc = "read" /\ ValidScanArgs) =>
        EmittedOfCurrent = ScanStream(SubSeq(stream, 1, fpos), pattern,
                                      around_context, buffer_size)

\* a match handed over while a further read, with bytes left, is due
C15_Witness ==
    /\ command = "needle"
    /\ pc = "read"
    /\ fpos < Len(stream)
    /\ emitted # <<>>
    /\ emitted[Len(emitted)].file = CurrentFile

\* C16: with max_matches = m > 0 one peek_needle run emits at most m
\* matches in total over all haystack files.
C16_CapIsTotal ==
    (command = "needle" /\ max_matches > 0) => Len(emitted) <= max_matches

\* ------------------------------------------- iter_needles_idx on its own
\* needle is held in pattern, haystack in chunk
InitIter ==
    /\ pattern \in BytesUpTo(MaxPattern)
    /\ chunk \in BytesUpTo(MaxStream)
    /\ index = -1
    /\ indices = <<>>
    /\ stream = <<>>
    /\ compressed = FALSE
    /\ fpos = 0
    /\ around_context = 0
    /\ buffer_size = 1
    /\ tail = <<>>
    /\ position = InitialPosition
    /\ yielded = <<>>
    /\ found = <<>>
    /\ NoPeekAt
    /\ NoCheckSum
    /\ NoWalk
    /\ NoCli
    /\ first_walk = <<>>
    /\ walk_runs = 0
    /\ conf_dict = <<>>
    /\ conf_file = <<>>
    /\ conf_attrs = <<>>
    /\ conf_last = <<>>
    /\ pc = "iter_start"

iterFrame == <<stream, compressed, fpos, pattern, around_context, buffer_size,
               tail, position, chunk, yielded, found, peekVars, sumVars,
               walkVars, cliVars, first_walk, walk_runs, confVars>>

\* index = haystack.find(needle)
IterStart ==
    /\ pc = "iter_start"
    /\ index' = FirstIndex(pattern, chunk)
    /\ pc' = "iter_loop"
    /\ UNCHANGED <<iterFrame, indices>>

\* while index != -1: yield index; index = haystack.find(needle, index + 1)
IterYield ==
    /\ pc = "iter_loop"
    /\ index # -1
    /\ indices' = Append(indices, index)
    /\ index' = NextIndex(pattern, chunk, index)
    /\ UNCHANGED <<iterFrame, pc>>

\* index == -1: the generator is exhausted
IterEnd ==
    /\ pc = "iter_loop"
    /\ index = -1
    /\ pc' = "iter_done"
    /\ UNCHANGED <<iterFrame, index, indices>>

NextIter == IterStart \/ IterYield \/ IterEnd

SpecIter == InitIter /\ [][NextIter]_vars

\* C21: for a non-empty needle the indices come out in strictly increasing
\* order, each is an index at which the needle occurs in the haystack, and
\* when the generator is exhausted every such index has come out,
\* overlapping occurrences included.
C21_AllIndicesInOrder ==
    pattern # <<>> =>
        /\ \A i, j \in DOMAIN indices : i < j => indices[i] < indices[j]
        /\ \A k \in DOMAIN indices : OccursAt(pattern, chunk, indices[k])
        /\ pc = "iter_done" =>
              \A i \in 0..Len(chunk) :
                  OccursAt(pattern, chunk, i) =>
                      \E k \in DOMAIN indices : indices[k] = i

\* an exhausted generator that yielded two overlapping occurrences
C21_Witness ==
    /\ pc = "iter_done"
    /\ pattern # <<>>
    /\ \E k \in DOMAIN indices :
          /\ k + 1 \in DOMAIN indices
          /\ indices[k + 1] < indices[k] + Len(pattern)

\* ------------------------------------------------------------ __ConfAccess
\* the recognized options, with the values of STANDARD_CONFIG as JSON texts
STANDARD_CONFIG ==
    [ buffer_size    |-> "\"8M\"",
      max_matches    |-> "0",
      around_context |-> "10",
      haystack_path  |-> "null" ]

Options == DOMAIN STANDARD_CONFIG

\* the names and values handed to conf.set
SetNames == Options \cup {"name", "colour"}
SetValues == {"\"1K\"", "5"}

\* self._conf_dict["name"] = value: the key is the string "name", whatever
\* the argument name holds
DictSet(d, name, value) ==
    [k \in DOMAIN d \cup {"name"} |-> IF k = "name" THEN value ELSE d[k]]

\* the files the user may have left behind in the editor the command line
\* opens on JSON_CONFIG_PATH: the recognized options with other values
EditedConfigs ==
    {[STANDARD_CONFIG EXCEPT !.max_matches = m, !.around_context = a] :
        m \in {"0", "5"}, a \in {"10", "2"}}

\* __init__: for key, value in self._conf_dict.items(): setattr(self, ...);
\* attributes set by an earlier __init__ stay
SetAttrs(attrs, d) ==
    [k \in DOMAIN attrs \cup DOMAIN d |-> IF k \in DOMAIN d THEN d[k] ELSE attrs[k]]

NoCall(d) == [op |-> "none", name |-> "", value |-> "",
              dict_before |-> d, file_before |-> d]

\* conf = __ConfAccess() on the file the command line wrote at first use
InitConf ==
    /\ stream = <<>>
    /\ compressed = FALSE
    /\ fpos = 0
    /\ around_context = 0
    /\ NoScan
    /\ NoPeekAt
    /\ NoCheckSum
    /\ NoWalk
    /\ NoCli
    /\ indices = <<>>
    /\ first_walk = <<>>
    /\ walk_runs = 0
    /\ conf_file \in EditedConfigs
    /\ conf_dict = conf_file
    /\ conf_attrs = conf_dict
    /\ conf_last = NoCall(conf_file)
    /\ pc = "conf"

confFrame == <<scanArgs, fpos, scanLocals, chunk, peekVars, sumVars, walkVars,
               cliVars, indices, first_walk, walk_runs, pc>>

\* set(name, value), name in self._conf_dict: store, dump, load again
ConfSet ==
    /\ pc = "conf"
    /\ \E name \in SetNames, value \in SetValues :
        /\ name \in DOMAIN conf_dict
        /\ conf_file' = DictSet(conf_dict, name, value)
        /\ conf_dict' = conf_file'
        /\ conf_attrs' = SetAttrs(conf_attrs, conf_dict')
        /\ conf_last' = [op |-> "set", name |-> name, value |-> value,
                         dict_before |-> conf_dict, file_before |-> conf_file]
    /\ UNCHANGED confFrame

\* set(name, value), name not in self._conf_dict: raise KeyError
ConfSetKeyError ==
    /\ pc = "conf"
    /\ \E name \in SetNames, value \in SetValues :
        /\ name \notin DOMAIN conf_dict
        /\ conf_last' = [op |-> "KeyError", name |-> name, value |-> value,
                         dict_before |-> conf_dict, file_before |-> conf_file]
    /\ UNCHANGED <<confFrame, conf_dict, conf_file, conf_attrs>>

\* restore(): dump STANDARD_CONFIG, load again
ConfRestore ==
    /\ pc = "conf"
    /\ conf_file' = STANDARD_CONFIG
    /\ conf_dict' = conf_file'
    /\ conf_attrs' = SetAttrs(conf_attrs, conf_dict')
    /\ conf_last' = [op |-> "restore", name |-> "", value |-> "",
                     dict_before |-> conf_dict, file_before |-> conf_file]
    /\ UNCHANGED confFrame

NextConf == ConfSet \/ ConfSetKeyError \/ ConfRestore

SpecConf == InitConf /\ [][NextConf]_vars

\* C25: after any sequence of set and restore calls the keys of the
\* configuration, and of the file, are exactly the recognized options; a set
\* is accepted only for a recognized name and leaves that name mapped to the
\* value and every other option as it was; a set with any other name raises
\* KeyError and leaves the configuration and the file as they were.
C25_ConfKeysAndFrame ==
    /\ DOMAIN conf_dict = Options
    /\ DOMAIN conf_file = Options
    /\ conf_last.op = "set" =>
          /\ conf_last.name \in Options
          /\ conf_dict = [conf_last.dict_before
                             EXCEPT ![conf_last.name] = conf_last.value]
    /\ conf_last.op = "KeyError" =>
          /\ conf_last.name \notin Options
          /\ conf_dict = conf_last.dict_before
          /\ conf_file = conf_last.file_before

====
